---- MODULE Spec2Model ----
(***************************************************************************)
(* The tool-call dispatch loop of src/src/main.js (processChatWithTools,   *)
(* the readline session around it) and the fact-memory store of            *)
(* src/src/tools.js (memoryStore, llm_memory.json).                        *)
(*                                                                         *)
(* JavaScript values are records with a type tag, texts are sequences of   *)
(* string pieces (a template literal is the sequence of its pieces), a Map *)
(* is the sequence of its entries in insertion order.                      *)
(*                                                                         *)
(* main.js imports searchMemoryJs, which tools.js does not export; the     *)
(* model describes the program once its modules are linked, the binding    *)
(* being undefined.                                                        *)
(***************************************************************************)
EXTENDS Integers, Sequences, FiniteSets, TLC

VARIABLES
  messages,         \* main.js:383  the session transcript
  workingMessages,  \* main.js:266  the working copy of the running invocation
  pc,               \* position of the session / dispatch loop
  toolCalls,        \* main.js:295  requests of the round being executed
  idx,              \* main.js:297  position of the for loop in toolCalls
  rlClosed,         \* main.js:442,450  readline interface closed
  exported,         \* main.js:411  last chat history written
  modelCalls,       \* number of ollama.chat requests issued
  toolRequests,     \* number of tool-call requests the backend has emitted
  memoryStore,      \* tools.js:248  Map key -> value, in insertion order
  file,             \* tools.js:247  llm_memory.json
  clock,            \* last reading of the wall clock (new Date())
  saveLog,          \* history: one entry per call of saveMemoryJs
  last              \* history: the last call of a memory function

vars == <<messages, workingMessages, pc, toolCalls, idx, rlClosed, exported,
          modelCalls, toolRequests, memoryStore, file, clock, saveLog, last>>

agentVars == <<messages, workingMessages, pc, toolCalls, idx, rlClosed,
               exported, modelCalls, toolRequests>>

-----------------------------------------------------------------------------
(* Bounds of the model *)

MaxCalls == 2
MaxModelCalls == 2
MaxToolRequests == 2
MaxClock == 3
MaxSaves == 3

-----------------------------------------------------------------------------
(* JavaScript values *)

NA == "undefined"

JsString(s) ==
  [type |-> "string", str |-> s, fact |-> NA, absolute_path |-> NA, query |-> NA]

JsObject(f, p) ==
  [type |-> "object", str |-> NA, fact |-> f, absolute_path |-> p, query |-> NA]

\* the arguments object of a search_memory request, main.js:214-217
JsQueryObject(q) ==
  [type |-> "object", str |-> NA, fact |-> NA, absolute_path |-> NA, query |-> q]

TemplateString(v) ==
  CASE v.type = "string"    -> v.str
    [] v.type = "undefined" -> "undefined"
    [] OTHER                -> "[object Object]"

Range(s) == {s[i] : i \in 1..Len(s)}

JsUndefined ==
  [type |-> "undefined", str |-> NA, fact |-> NA, absolute_path |-> NA, query |-> NA]

-----------------------------------------------------------------------------
(* Map (tools.js:248): the entries in insertion order, keys unique *)

MapKeys(m) == {m[i].key : i \in 1..Len(m)}

MapHas(m, k) == k \in MapKeys(m)

MapGet(m, k) == (CHOOSE i \in 1..Len(m) : m[i].key = k) 

MapValue(m, k) == m[MapGet(m, k)].value

\* Map.prototype.set: a present key keeps its position and takes the new value
MapSet(m, k, v) ==
  IF MapHas(m, k)
    THEN [i \in 1..Len(m) |-> IF m[i].key = k THEN [key |-> k, value |-> v] ELSE m[i]]
    ELSE Append(m, [key |-> k, value |-> v])

-----------------------------------------------------------------------------
(* llm_memory.json *)

Facts == {"blue", "red"}

IoOutcomes == {"ok", "EACCES", "ENOSPC"}

AbsentFile == [state |-> "absent", entries |-> <<>>]

\* a file that exists and that fs.readFileSync cannot read
UnreadableFile == [state |-> "unreadable", entries |-> <<>>]

MalformedFile == [state |-> "malformed", entries |-> <<>>]

JsonFile(entries) == [state |-> "json", entries |-> entries]

\* new Date().toISOString() has millisecond resolution: one key per reading
KeyAt(t) == "fact_" \o ToString(t)

InitialFiles ==
  { AbsentFile, UnreadableFile, MalformedFile, JsonFile(<<>>),
    JsonFile(<<[key |-> KeyAt(0), value |-> JsString("old")]>>) }

\* JSON.stringify(Object.fromEntries(store)): string keys in insertion order,
\* a property whose value is undefined is left out
JsonStringify(store) ==
  LET keep(e) == e.value.type # "undefined"
  IN  SelectSeq(store, keep)

\* a load that starts from an empty Map whatever the file holds
LoadIgnoresFile(f) == <<>>

\* loadMemoryFromFile, tools.js:251-263: the entries of the parsed object;
\* an absent file (253) and every exception of readFileSync or JSON.parse
\* (259-261) give an empty Map
LoadMemoryFromFile(f) ==
  IF f.state = "json" THEN f.entries ELSE <<>>

\* fs.writeFileSync: the write succeeds, fails before the file is opened
\* (file untouched) or fails after it was truncated
WriteFileSync(f, data, io) ==
  CASE io = "ok"     -> JsonFile(data)
    [] io = "EACCES" -> f
    [] io = "ENOSPC" -> MalformedFile

\* a save that writes the newest record alone instead of the whole Map
SaveOnlyNewFact(f, store, io) ==
  WriteFileSync(f, JsonStringify(SubSeq(store, Len(store), Len(store))), io)

\* saveMemoryToFile, tools.js:266-274: the exception is caught and logged
SaveMemoryToFile(f, store, io) == WriteFileSync(f, JsonStringify(store), io)

\* saveMemoryJs, tools.js:288-292: the store after the set
SaveMemoryStore(store, t, fact) == MapSet(store, KeyAt(t), fact)

\* saveMemoryJs, tools.js:294: the returned text
SaveMemoryText(store, t, fact) ==
  << "Fact saved to memory with key: ", KeyAt(t), ". Total facts: ",
     ToString(Len(SaveMemoryStore(store, t, fact))) >>

\* retrieveMemoryJs, tools.js:298-307
RetrieveMemoryJs(store, key) ==
  IF MapHas(store, key)
    THEN << "Retrieved fact for key '", key, "': ",
            TemplateString(MapValue(store, key)) >>
    ELSE << "No fact found for key: ", key >>

\* a listing that puts each record before the ones listed so far
RECURSIVE ListLinesReversed(_)
ListLinesReversed(store) ==
  IF store = <<>> THEN <<>>
  ELSE ListLinesReversed(Tail(store))
       \o << "- ", store[1].key, ": ", TemplateString(store[1].value), "\n" >>

\* the for...of loop over memoryStore.entries(), tools.js:318-320
RECURSIVE ListLines(_)
ListLines(store) ==
  IF store = <<>> THEN <<>>
  ELSE << "- ", store[1].key, ": ", TemplateString(store[1].value), "\n" >>
       \o ListLines(Tail(store))

\* listAllMemoryJs, tools.js:310-322
ListAllMemoryJs(store) ==
  IF Len(store) = 0
    THEN << "No facts currently stored in memory." >>
    ELSE << "Stored facts:\n" >> \o ListLines(store)

\* one entry of the history of saves: what saveMemoryJs was given, the key
\* it made, and the size of the Map before and after
SaveRecord(store, t, fact) ==
  [key |-> KeyAt(t), fact |-> fact, sizeBefore |-> Len(store),
   sizeAfter |-> Len(SaveMemoryStore(store, t, fact))]

NoCall == [op |-> "none", key |-> NA, fact |-> JsUndefined, ret |-> <<>>, io |-> NA]

-----------------------------------------------------------------------------
(* Messages, main.js:277-278, 368-373, 385-388, 455 *)

Message(role, content, isText, calls, id, name) ==
  [role |-> role, content |-> content, isText |-> isText, tool_calls |-> calls,
   tool_call_id |-> id, name |-> name]

SystemMessage ==
  Message("system", <<"You are a helpful assistant.">>, TRUE, <<>>, NA, NA)

UserMessage(q) == Message("user", <<q>>, TRUE, <<>>, NA, NA)

AssistantMessage(content, calls) == Message("assistant", content, TRUE, calls, NA, NA)

-----------------------------------------------------------------------------
(* The chat history export, main.js:394-416 *)

\* what the file system does to saveChatHistory: the file is written,
\* fs.writeFileSync throws, or fs.mkdirSync throws
HistoryIoOutcomes == {"ok", "EACCES", "mkdir"}

\* the last history file and how the last call of saveChatHistory ended
History(history, status) == [history |-> history, status |-> status]

NoHistory == History(<<>>, "none")

\* saveChatHistory, main.js:394-416: nothing is written for a transcript
\* of the system message alone (395-398); an exception of mkdirSync leaves
\* the function (401-403); one of writeFileSync is caught and logged (410-415)
SaveChatHistory(old, msgs, io) ==
  CASE Len(msgs) <= 1 -> History(old.history, "skipped")
    [] Len(msgs) > 1 /\ io = "mkdir"  -> History(old.history, "threw")
    [] Len(msgs) > 1 /\ io = "EACCES" -> History(old.history, "failed")
    [] OTHER -> History(msgs, "written")

-----------------------------------------------------------------------------
(* Results of calling a handler: a returned text, a returned value that is *)
(* no text, or an exception                                                *)

Returned(text) == [kind |-> "text", text |-> text]

ReturnedObject == [kind |-> "object", text |-> <<>>]

Threw(error) == [kind |-> "throw", text |-> <<error>>]

AbsolutePaths == {"/tmp/notes.txt"}

FsOutcomes == {"missing", "directory", "file", "EIO"}

\* readFileJs, tools.js:12-29.  path.isAbsolute throws a TypeError when its
\* argument is no string.
ReadFileJs(absolutePath, fs) ==
  IF absolutePath.type # "string"
    THEN Threw("TypeError [ERR_INVALID_ARG_TYPE]")
  ELSE IF absolutePath.str \notin AbsolutePaths
    THEN Returned(<<"Error: Path must be absolute. Received: ", absolutePath.str>>)
  ELSE IF fs = "missing"
    THEN Returned(<<"Error: File not found at ", absolutePath.str>>)
  ELSE IF fs = "directory"
    THEN Returned(<<"Error: Path is not a file: ", absolutePath.str>>)
  ELSE IF fs = "EIO"
    THEN Returned(<<"Error reading file: ", "EIO">>)
  ELSE Returned(<<"hello">>)

\* listDirectoryJs, tools.js:32-53
ListDirectoryJs(absolutePath, fs) ==
  IF absolutePath.type # "string"
    THEN Threw("TypeError [ERR_INVALID_ARG_TYPE]")
  ELSE IF absolutePath.str \notin AbsolutePaths
    THEN Returned(<<"Error: Path must be absolute. Received: ", absolutePath.str>>)
  ELSE IF fs = "missing"
    THEN Returned(<<"Error: Directory not found at ", absolutePath.str>>)
  ELSE IF fs = "file"
    THEN Returned(<<"Error: Path is not a directory: ", absolutePath.str>>)
  ELSE IF fs = "EIO"
    THEN Returned(<<"Error listing directory: ", "EIO">>)
  ELSE Returned(<<"notes.txt">>)

\* searchFileContentJs, tools.js:76-135: glob is no binding of the module
\* (only globSync is imported), the ReferenceError is caught at line 132
SearchFileContentJs(pattern) ==
  Returned(<<"Error searching file content: ", "glob is not defined">>)

\* globJs, tools.js:137-159: every failure is caught at line 156
GlobJs(pattern, fs) ==
  IF pattern.type # "string"
    THEN Returned(<<"Error performing glob search: ", "TypeError">>)
  ELSE IF fs = "file"
    THEN Returned(<<"/tmp/notes.txt">>)
  ELSE Returned(<<"No files found matching pattern '", pattern.str, "' in '", "cwd", "'.">>)

\* readManyFilesJs, tools.js:169-244: spreading a non-iterable, or the
\* unbound glob, raises inside the try; caught at line 240
ReadManyFilesJs(paths) ==
  IF paths.type = "string"
    THEN Returned(<<"Error in readManyFiles: ", "glob is not defined">>)
    ELSE Returned(<<"Error in readManyFiles: ", "paths is not iterable">>)

-----------------------------------------------------------------------------
(* The registry, main.js:242-253, and the lookup of main.js:300 *)

RegisteredNames ==
  { "read_file", "list_directory", "search_file_content", "glob",
    "read_many_files", "save_memory", "search_memory", "list_all_memory" }

\* the names of OLLAMA_TOOLS_SCHEMA, main.js:28-237 (write_file is commented
\* out), given to the model with every call, main.js:270-274
AdvertisedNames ==
  { "read_file", "list_directory", "search_file_content", "glob",
    "read_many_files", "save_memory", "search_memory", "list_all_memory" }

\* own properties of availableFunctions; searchMemoryJs is not defined by
\* tools.js, so the property search_memory holds undefined
OwnFunction(name) ==
  CASE name = "read_file"           -> "readFileJs"
    [] name = "list_directory"      -> "listDirectoryJs"
    [] name = "search_file_content" -> "searchFileContentJs"
    [] name = "glob"                -> "globJs"
    [] name = "read_many_files"     -> "readManyFilesJs"
    [] name = "save_memory"         -> "saveMemoryJs"
    [] name = "search_memory"       -> NA
    [] name = "list_all_memory"     -> "listAllMemoryJs"

\* availableFunctions is an object literal: a name that is no own property
\* is looked up in Object.prototype
InheritedFunction(name) ==
  CASE name = "hasOwnProperty" -> "Object.prototype.hasOwnProperty"
    [] name = "toString"       -> "Object.prototype.toString"
    [] name = "constructor"    -> "Object"
    [] OTHER                   -> NA

\* availableFunctions[functionName], main.js:300
AvailableFunctions(name) ==
  IF name \in RegisteredNames THEN OwnFunction(name) ELSE InheritedFunction(name)

\* functionToCall(functionArgs), main.js:309, for the handlers that leave
\* the memory store alone
Invoke(functionToCall, functionArgs, store, fs) ==
  CASE functionToCall = "readFileJs"          -> ReadFileJs(functionArgs, fs)
    [] functionToCall = "listDirectoryJs"     -> ListDirectoryJs(functionArgs, fs)
    [] functionToCall = "searchFileContentJs" -> SearchFileContentJs(functionArgs)
    [] functionToCall = "globJs"              -> GlobJs(functionArgs, fs)
    [] functionToCall = "readManyFilesJs"     -> ReadManyFilesJs(functionArgs)
    [] functionToCall = "listAllMemoryJs"     -> Returned(ListAllMemoryJs(store))
    [] functionToCall = "Object.prototype.hasOwnProperty"
                                              -> Threw("TypeError")
    [] functionToCall = "Object.prototype.toString"
                                              -> Returned(<<"[object Undefined]">>)
    [] functionToCall = "Object"              -> ReturnedObject

\* main.js:364
NotFoundText(functionName) == <<"Error: Tool '", functionName, "' not found.">>

ToolMessageIdFromName(toolCall, out) ==
  Message("tool", out.text, out.kind = "text", <<>>, toolCall.name, toolCall.name)

\* main.js:368-373
ToolMessage(toolCall, out) ==
  Message("tool", out.text, out.kind = "text", <<>>, toolCall.id, toolCall.name)

-----------------------------------------------------------------------------
(* The model backend: what a response of ollama.chat may carry *)

EmptyArgs == JsObject(NA, NA)

ToolRequestKinds ==
  { [name |-> "read_file",       arguments |-> JsObject(NA, "notes.txt")],
    [name |-> "save_memory",     arguments |-> JsObject("blue", NA)],
    [name |-> "list_all_memory", arguments |-> EmptyArgs],
    [name |-> "glob",            arguments |-> EmptyArgs],
    [name |-> "search_memory",   arguments |-> JsQueryObject("old")],
    [name |-> "write_file",      arguments |-> EmptyArgs],
    [name |-> "hasOwnProperty",  arguments |-> EmptyArgs] }

\* ids are unique within one assistant message; they come in either order
CallId(i, n, descending) ==
  "call_" \o ToString(IF descending THEN n + 1 - i ELSE i)

ToolCalls(kinds, descending) ==
  [i \in 1..Len(kinds) |->
     [id |-> CallId(i, Len(kinds), descending),
      name |-> kinds[i].name, arguments |-> kinds[i].arguments]]

Queries == {"hi"}

-----------------------------------------------------------------------------
(* The state after the modules are loaded: tools.js:277, main.js:383-389 *)

Init ==
  /\ messages = <<SystemMessage>>
  /\ workingMessages = <<>>
  /\ pc = "prompt"
  /\ toolCalls = <<>>
  /\ idx = 0
  /\ rlClosed = FALSE
  /\ exported = NoHistory
  /\ modelCalls = 0
  /\ toolRequests = 0
  /\ file \in InitialFiles
  /\ memoryStore = LoadMemoryFromFile(file)
  /\ clock = 1
  /\ saveLog = <<>>
  /\ last = NoCall

-----------------------------------------------------------------------------
(* The session, main.js:394-483 *)

\* askQuestion, main.js:445-447: rl.question on a closed interface takes no
\* further input
AskQuestion == IF rlClosed THEN "closed" ELSE "prompt"

\* a callback that closes the interface without the export
UserExitNoExport ==
  /\ pc = "prompt"
  /\ ~rlClosed
  /\ rlClosed' = TRUE
  /\ pc' = "exited"
  /\ UNCHANGED <<messages, workingMessages, toolCalls, idx, exported, modelCalls,
                 toolRequests, memoryStore, file, clock, saveLog, last>>

\* the callback of rl.question on the input exit, main.js:448-452; an
\* exception of saveChatHistory leaves the callback before rl.close and
\* ends the process as an unhandled rejection
UserExit ==
  /\ pc = "prompt"
  /\ ~rlClosed
  /\ \E userQuery \in {"exit", "EXIT"}, io \in HistoryIoOutcomes :
       /\ exported' = SaveChatHistory(exported, messages, io)
       /\ IF exported'.status = "threw"
            THEN rlClosed' = rlClosed /\ pc' = "crashed"
            ELSE rlClosed' = TRUE /\ pc' = "exited"
  /\ UNCHANGED <<messages, workingMessages, toolCalls, idx, modelCalls,
                 toolRequests, memoryStore, file, clock, saveLog, last>>

\* a callback of rl.question that could run while a model call is pending
UserInputAnytime ==
  /\ pc \in {"prompt", "call"}
  /\ ~rlClosed
  /\ modelCalls < MaxModelCalls
  /\ \E userQuery \in Queries :
       /\ messages' = Append(messages, UserMessage(userQuery))
       /\ workingMessages' = messages'
  /\ pc' = "call"
  /\ modelCalls' = modelCalls + 1
  /\ UNCHANGED <<toolCalls, idx, rlClosed, exported, toolRequests,
                 memoryStore, file, clock, saveLog, last>>

\* the callback of rl.question, main.js:455-464, up to the first await of
\* processChatWithTools (main.js:264-270)
UserInput ==
  /\ pc = "prompt"
  /\ ~rlClosed
  /\ modelCalls < MaxModelCalls
  /\ \E userQuery \in Queries :
       /\ messages' = Append(messages, UserMessage(userQuery))
       /\ workingMessages' = messages'
  /\ pc' = "call"
  /\ modelCalls' = modelCalls + 1
  /\ UNCHANGED <<toolCalls, idx, rlClosed, exported, toolRequests,
                 memoryStore, file, clock, saveLog, last>>

\* a listener that could run between two handlers of a round
InterruptAnytime ==
  /\ pc \in {"prompt", "call", "tools"}
  /\ ~rlClosed
  /\ \E io \in HistoryIoOutcomes :
       exported' = SaveChatHistory(exported, messages, io)
  /\ IF exported'.status = "threw"
       THEN rlClosed' = rlClosed /\ pc' = "crashed"
       ELSE rlClosed' = TRUE /\ pc' = IF pc = "prompt" THEN "closed" ELSE pc
  /\ UNCHANGED <<messages, workingMessages, toolCalls, idx, modelCalls,
                 toolRequests, memoryStore, file, clock, saveLog, last>>

\* rl.on("SIGINT"), main.js:439-443: runs when the event loop is idle, that
\* is at the prompt or while a model call is pending; an exception of
\* saveChatHistory leaves the listener before rl.close and ends the process
\* as an uncaught exception
Interrupt ==
  /\ pc \in {"prompt", "call"}
  /\ ~rlClosed
  /\ \E io \in HistoryIoOutcomes :
       exported' = SaveChatHistory(exported, messages, io)
  /\ IF exported'.status = "threw"
       THEN rlClosed' = rlClosed /\ pc' = "crashed"
       ELSE rlClosed' = TRUE /\ pc' = IF pc = "prompt" THEN "closed" ELSE pc
  /\ UNCHANGED <<messages, workingMessages, toolCalls, idx, modelCalls,
                 toolRequests, memoryStore, file, clock, saveLog, last>>

\* a session that takes the returned array for the messages of the
\* invocation alone
ReturnNewMessagesOnly ==
  /\ pc = "done"
  /\ messages' = SubSeq(workingMessages, Len(messages) + 1, Len(workingMessages))
  /\ pc' = AskQuestion
  /\ UNCHANGED <<workingMessages, toolCalls, idx, rlClosed, exported, modelCalls,
                 toolRequests, memoryStore, file, clock, saveLog, last>>

\* main.js:464-475: the await resumes with the returned array
ReturnToSession ==
  /\ pc = "done"
  /\ messages' = workingMessages
  /\ pc' = AskQuestion
  /\ UNCHANGED <<workingMessages, toolCalls, idx, rlClosed, exported, modelCalls,
                 toolRequests, memoryStore, file, clock, saveLog, last>>

\* a session that keeps the working copy of the failed invocation
CatchErrorKeepRounds ==
  /\ pc = "failed"
  /\ messages' = workingMessages
  /\ pc' = AskQuestion
  /\ toolCalls' = <<>>
  /\ idx' = 0
  /\ UNCHANGED <<workingMessages, rlClosed, exported, modelCalls,
                 toolRequests, memoryStore, file, clock, saveLog, last>>

\* a session that answers a failure by calling processChatWithTools again
CatchErrorRetry ==
  /\ pc = "failed"
  /\ pc' = "call"
  /\ workingMessages' = messages
  /\ toolCalls' = <<>>
  /\ idx' = 0
  /\ UNCHANGED <<messages, rlClosed, exported, modelCalls,
                 toolRequests, memoryStore, file, clock, saveLog, last>>

\* main.js:476-479: the rejection is caught and reported
CatchError ==
  /\ pc = "failed"
  /\ pc' = AskQuestion
  /\ toolCalls' = <<>>
  /\ idx' = 0
  /\ UNCHANGED <<messages, workingMessages, rlClosed, exported, modelCalls,
                 toolRequests, memoryStore, file, clock, saveLog, last>>

-----------------------------------------------------------------------------
(* processChatWithTools, main.js:264-377 *)

NoToolCallsOffByOne(assistantMessage) == Len(assistantMessage.tool_calls) <= 1

\* main.js:286-289
NoToolCalls(assistantMessage) == Len(assistantMessage.tool_calls) = 0

LoopOverAfterFirst(i, calls) == i >= 1

\* main.js:297: the for loop is over after the last request
LoopOver(i, calls) == i >= Len(calls)

\* ollama.chat resolves, main.js:270-295
ModelResponds ==
  /\ pc = "call"
  /\ \E n \in 0..MaxCalls, descending \in BOOLEAN :
       /\ toolRequests + n <= MaxToolRequests
       /\ n > 0 => modelCalls < MaxModelCalls
       /\ descending => n > 1
       /\ \E kinds \in [1..n -> ToolRequestKinds] :
            LET assistantMessage ==
                  AssistantMessage(IF n = 0 THEN <<"answer">> ELSE <<>>,
                                   ToolCalls(kinds, descending))
            IN  /\ workingMessages' = Append(workingMessages, assistantMessage)
                /\ IF NoToolCalls(assistantMessage)
                     THEN /\ pc' = "done"
                          /\ UNCHANGED <<toolCalls, idx>>
                     ELSE /\ pc' = "tools"
                          /\ toolCalls' = assistantMessage.tool_calls
                          /\ idx' = 1
       /\ toolRequests' = toolRequests + n
  /\ UNCHANGED <<messages, rlClosed, exported, modelCalls, memoryStore, file,
                 clock, saveLog, last>>

\* a loop that pushed onto the array it was given: when the call rejects,
\* the session's array holds the rounds of the invocation
ModelFailsSharedArray ==
  /\ pc = "call"
  /\ pc' = "failed"
  /\ messages' = workingMessages
  /\ UNCHANGED <<workingMessages, toolCalls, idx, rlClosed, exported,
                 modelCalls, toolRequests, memoryStore, file, clock, saveLog, last>>

\* ollama.chat rejects, main.js:270: the rejection leaves processChatWithTools
ModelFails ==
  /\ pc = "call"
  /\ pc' = "failed"
  /\ UNCHANGED <<messages, workingMessages, toolCalls, idx, rlClosed, exported,
                 modelCalls, toolRequests, memoryStore, file, clock, saveLog, last>>

\* a loop that returns after the handlers of a round instead of calling the
\* model again
PushResultThenReturn(toolCall, out) ==
  /\ workingMessages' = Append(workingMessages, ToolMessage(toolCall, out))
  /\ IF idx >= Len(toolCalls)
       THEN /\ pc' = "done"
            /\ toolCalls' = <<>>
            /\ idx' = 0
            /\ UNCHANGED modelCalls
       ELSE /\ idx' = idx + 1
            /\ UNCHANGED <<pc, toolCalls, modelCalls>>

\* main.js:368-374 and the return to line 270: the result is pushed and the
\* loop moves on; after the last request the next model call is issued
PushResult(toolCall, out) ==
  /\ workingMessages' = Append(workingMessages, ToolMessage(toolCall, out))
  /\ IF LoopOver(idx, toolCalls)
       THEN /\ pc' = "call"
            /\ toolCalls' = <<>>
            /\ idx' = 0
            /\ modelCalls' = modelCalls + 1
       ELSE /\ pc' = "tools"
            /\ idx' = idx + 1
            /\ UNCHANGED <<toolCalls, modelCalls>>

\* an exception of the handler leaves the for loop and processChatWithTools
Raise ==
  /\ pc' = "failed"
  /\ UNCHANGED <<workingMessages, toolCalls, idx, modelCalls>>

\* one iteration of the for loop whose name resolves to nothing, main.js:361-365
ExecUnknownTool ==
  /\ pc = "tools"
  /\ AvailableFunctions(toolCalls[idx].name) = NA
  /\ PushResult(toolCalls[idx], Returned(NotFoundText(toolCalls[idx].name)))
  /\ UNCHANGED <<messages, rlClosed, exported, toolRequests, memoryStore, file,
                 clock, saveLog, last>>

\* one iteration of the for loop calling saveMemoryJs, main.js:303-309 and
\* tools.js:283-295
ExecSaveMemory ==
  /\ pc = "tools"
  /\ AvailableFunctions(toolCalls[idx].name) = "saveMemoryJs"
  /\ \E t \in clock..MaxClock, io \in IoOutcomes :
       LET fact == toolCalls[idx].arguments
           ret == SaveMemoryText(memoryStore, t, fact)
       IN  /\ clock' = t
           /\ memoryStore' = SaveMemoryStore(memoryStore, t, fact)
           /\ file' = SaveMemoryToFile(file, memoryStore', io)
           /\ saveLog' = Append(saveLog, SaveRecord(memoryStore, t, fact))
           /\ last' = [op |-> "save", key |-> KeyAt(t), fact |-> fact,
                       ret |-> ret, io |-> io]
           /\ PushResult(toolCalls[idx], Returned(ret))
  /\ UNCHANGED <<messages, rlClosed, exported, toolRequests>>

\* one iteration of the for loop calling any other handler, main.js:303-309
ExecTool ==
  /\ pc = "tools"
  /\ AvailableFunctions(toolCalls[idx].name) \notin {NA, "saveMemoryJs"}
  /\ \E fs \in FsOutcomes :
       LET out == Invoke(AvailableFunctions(toolCalls[idx].name),
                         toolCalls[idx].arguments, memoryStore, fs)
       IN  IF out.kind = "throw" THEN Raise ELSE PushResult(toolCalls[idx], out)
  /\ UNCHANGED <<messages, rlClosed, exported, toolRequests, memoryStore, file,
                 clock, saveLog, last>>

Next ==
  \/ UserInput
  \/ UserExit
  \/ Interrupt
  \/ ModelResponds
  \/ ModelFails
  \/ ExecUnknownTool
  \/ ExecSaveMemory
  \/ ExecTool
  \/ ReturnToSession
  \/ CatchError

Spec == Init /\ [][Next]_vars

\* the steps of processChatWithTools: a pending ollama.chat settles
\* (main.js:270) and a handler that was called runs to its end (main.js:309)
LoopStep ==
  \/ ModelResponds
  \/ ModelFails
  \/ ExecUnknownTool
  \/ ExecSaveMemory
  \/ ExecTool

\* the session of a user who neither interrupts nor exits
LoopNext ==
  \/ UserInput
  \/ LoopStep
  \/ ReturnToSession
  \/ CatchError

\* that session with a backend that settles every call and handlers that end
LiveSpec == Init /\ [][LoopNext]_vars /\ WF_vars(LoopStep)

-----------------------------------------------------------------------------
(* The memory functions of tools.js called one at a time, and the restart  *)
(* of the process, which loads the store again (tools.js:277)              *)

StoreSave ==
  /\ Len(saveLog) < MaxSaves
  /\ \E f \in Facts, t \in clock..MaxClock, io \in IoOutcomes :
       LET fact == JsString(f)
       IN  /\ clock' = t
           /\ memoryStore' = SaveMemoryStore(memoryStore, t, fact)
           /\ file' = SaveMemoryToFile(file, memoryStore', io)
           /\ saveLog' = Append(saveLog, SaveRecord(memoryStore, t, fact))
           /\ last' = [op |-> "save", key |-> KeyAt(t), fact |-> fact,
                       ret |-> SaveMemoryText(memoryStore, t, fact), io |-> io]
  /\ UNCHANGED agentVars

\* a lookup that takes the record out of the Map
StoreRetrieveAndDelete ==
  /\ \E t \in 0..MaxClock :
       /\ last' = [op |-> "retrieve", key |-> KeyAt(t), fact |-> JsUndefined,
                   ret |-> RetrieveMemoryJs(memoryStore, KeyAt(t)), io |-> NA]
       /\ memoryStore' = SelectSeq(memoryStore, LAMBDA e : e.key # KeyAt(t))
  /\ UNCHANGED <<file, clock, saveLog>>
  /\ UNCHANGED agentVars

StoreRetrieve ==
  /\ \E t \in 0..MaxClock :
       last' = [op |-> "retrieve", key |-> KeyAt(t), fact |-> JsUndefined,
                ret |-> RetrieveMemoryJs(memoryStore, KeyAt(t)), io |-> NA]
  /\ UNCHANGED <<memoryStore, file, clock, saveLog>>
  /\ UNCHANGED agentVars

StoreListAll ==
  /\ last' = [op |-> "list", key |-> NA, fact |-> JsUndefined,
              ret |-> ListAllMemoryJs(memoryStore), io |-> NA]
  /\ UNCHANGED <<memoryStore, file, clock, saveLog>>
  /\ UNCHANGED agentVars

\* a new process: some time has passed, the Map is built from the file
StoreReload ==
  /\ clock < MaxClock
  /\ clock' = clock + 1
  /\ memoryStore' = LoadMemoryFromFile(file)
  /\ saveLog' = <<>>
  /\ last' = [op |-> "load", key |-> NA, fact |-> JsUndefined, ret |-> <<>>,
              io |-> NA]
  /\ UNCHANGED file
  /\ UNCHANGED agentVars

StoreNext ==
  \/ StoreSave
  \/ StoreRetrieve
  \/ StoreListAll
  \/ StoreReload

StoreSpec == Init /\ [][StoreNext]_vars

-----------------------------------------------------------------------------
(* Properties of the transcripts *)

\* the index of the last assistant message before position j, or 0
NearestAssistant(m, j) ==
  LET S == {i \in 1..(j - 1) : i <= Len(m) /\ m[i].role = "assistant"}
  IN  IF S = {} THEN 0 ELSE CHOOSE i \in S : \A k \in S : k <= i

RequestIds(msg) == {msg.tool_calls[c].id : c \in 1..Len(msg.tool_calls)}

\* every tool message answers a request of the nearest assistant message
\* before it, with tool messages only in between
Linked(m) ==
  \A j \in 1..Len(m) :
    m[j].role = "tool" =>
      LET a == NearestAssistant(m, j)
      IN  /\ a > 0
          /\ \A k \in (a + 1)..j : m[k].role = "tool"
          /\ m[j].tool_call_id \in RequestIds(m[a])

\* the tool messages that directly follow the assistant message at a
Segment(m, a) ==
  {j \in (a + 1)..Len(m) : \A k \in (a + 1)..j : m[k].role = "tool"}

\* every request of every assistant message has exactly one result
Answered(m) ==
  \A a \in 1..Len(m) :
    m[a].role = "assistant" =>
      \A c \in 1..Len(m[a].tool_calls) :
        Cardinality({j \in Segment(m, a) :
                       m[j].tool_call_id = m[a].tool_calls[c].id}) = 1

\* the assistant message at a is followed by exactly one tool message per
\* request, the i-th with the id and the name of the i-th request
RoundAnswered(m, a) ==
  LET calls == m[a].tool_calls
  IN  /\ a + Len(calls) <= Len(m)
      /\ \A i \in 1..Len(calls) :
           /\ m[a + i].role = "tool"
           /\ m[a + i].tool_call_id = calls[i].id
           /\ m[a + i].name = calls[i].name
      /\ a + Len(calls) < Len(m) => m[a + Len(calls) + 1].role # "tool"

\* C1: once a round is over (the loop is at a model call, has returned or
\* has been left), every assistant message of the working transcript with N
\* requests is followed by exactly N tool messages, the i-th carrying the
\* id and the name of the i-th request.
C1_EveryRoundAnswered ==
  pc \in {"call", "done", "failed"} =>
    \A a \in 1..Len(workingMessages) :
      workingMessages[a].role = "assistant" => RoundAnswered(workingMessages, a)

\* C2: in the working transcript and in the session transcript every tool
\* message carries the id of a request of the nearest assistant message
\* before it, and only tool messages lie between the two.
C2_ToolResultsLinked == Linked(workingMessages) /\ Linked(messages)

C2_Witness ==
  \E j \in 1..Len(messages) :
    /\ messages[j].role = "tool"
    /\ NearestAssistant(messages, j) > 0
    /\ Len(messages[NearestAssistant(messages, j)].tool_calls) = 2
    /\ messages[j].tool_call_id = "call_2"

\* C3: whenever a model call is pending, every request of every assistant
\* message of the transcript that was sent has exactly one tool result in it.
C3_AnsweredWhenInvoked == pc = "call" => Answered(workingMessages)

C3_Witness ==
  /\ pc = "call"
  /\ \E a \in 1..Len(workingMessages) : Len(workingMessages[a].tool_calls) = 2

\* C4: every step of the for loop that calls a registered handler ends with
\* one more tool message whose content is a text, and the loop goes on; no
\* such step leaves processChatWithTools with an exception.
C4_HandlersNeverRaise ==
  [][(pc = "tools" /\ AvailableFunctions(toolCalls[idx].name) # NA
        /\ toolCalls[idx].name \in RegisteredNames)
       => /\ pc' \in {"tools", "call"}
          /\ Len(workingMessages') = Len(workingMessages) + 1
          /\ workingMessages'[Len(workingMessages')].role = "tool"
          /\ workingMessages'[Len(workingMessages')].isText]_vars

\* C5: a request naming a tool that is no entry of the registry yields one
\* tool message saying that the tool was not found, and the loop goes on to
\* the next request or to the next model call.
C5_UnknownToolReported ==
  [][(pc = "tools" /\ toolCalls[idx].name \notin RegisteredNames)
       => /\ pc' \in {"tools", "call"}
          /\ Len(workingMessages') = Len(workingMessages) + 1
          /\ workingMessages'[Len(workingMessages')].role = "tool"
          /\ workingMessages'[Len(workingMessages')].content
               = NotFoundText(toolCalls[idx].name)]_vars

\* C6: processChatWithTools returns exactly when the assistant message just
\* appended carries no requests: a return follows a model response, the
\* returned transcript ends with that assistant message, which has no
\* requests, and a response without requests is always followed by the return.
C6_ReturnsIffNoToolCalls ==
  [][/\ (pc' = "done" /\ pc # "done")
          => /\ pc = "call"
             /\ Len(workingMessages') = Len(workingMessages) + 1
             /\ workingMessages'[Len(workingMessages')].role = "assistant"
             /\ Len(workingMessages'[Len(workingMessages')].tool_calls) = 0
     /\ (pc = "call" /\ Len(workingMessages') = Len(workingMessages) + 1)
          => (pc' = "done"
                <=> Len(workingMessages'[Len(workingMessages')].tool_calls) = 0)
     /\ (pc = "done" /\ pc' # "done") => messages' = workingMessages]_vars

C6_Witness ==
  /\ pc = "done"
  /\ \E j \in 1..Len(workingMessages) : workingMessages[j].role = "tool"

-----------------------------------------------------------------------------
(* Properties of the memory store *)

\* C7: no save overwrites a record: every save of this process made the Map
\* one entry larger, and every saved key still holds the fact it was saved
\* with.
C7_NoOverwrite ==
  \A i \in 1..Len(saveLog) :
    /\ saveLog[i].sizeAfter = saveLog[i].sizeBefore + 1
    /\ MapHas(memoryStore, saveLog[i].key)
    /\ MapValue(memoryStore, saveLog[i].key) = saveLog[i].fact

\* C8: when the write of the backing file failed during a save, the text
\* that save returned does not report success.
C8_WriteFailureReported ==
  (last.op = "save" /\ last.io # "ok")
    => last.ret[1] # "Fact saved to memory with key: "

\* C9: right after save(X) has returned, loading the store from the backing
\* file yields a record whose value is X.
C9_DurableAfterSave ==
  last.op = "save" =>
    \E i \in 1..Len(LoadMemoryFromFile(file)) :
      LoadMemoryFromFile(file)[i].value = last.fact

\* C10: get(key) with a key that a save of this process returned yields the
\* fact given to that save, whatever was saved in between.
C10_RoundTrip ==
  last.op = "retrieve" =>
    \A i \in 1..Len(saveLog) :
      saveLog[i].key = last.key =>
        last.ret = << "Retrieved fact for key '", last.key, "': ",
                      TemplateString(saveLog[i].fact) >>

-----------------------------------------------------------------------------
(* The memory tools through the dispatch loop *)

\* the request that the tool message at j of the transcript m answers
RequestOf(m, j) == m[NearestAssistant(m, j)].tool_calls[j - NearestAssistant(m, j)]

\* the tool message at j is the result of a save_memory request that carried
\* a fact
IsSaveResult(m, j) ==
  /\ m[j].role = "tool"
  /\ m[j].name = "save_memory"
  /\ NearestAssistant(m, j) > 0
  /\ RequestOf(m, j).arguments.fact # NA

\* C11: the result of a save_memory request with arguments {fact: F} names
\* a key fact_<time of the save>, and the content of every list_all_memory
\* result that the loop appends after it contains F.
C11_SavedFactListed ==
  \A i \in 1..Len(workingMessages) :
    IsSaveResult(workingMessages, i) =>
      /\ \E t \in 0..(MaxClock + 1) : workingMessages[i].content[2] = KeyAt(t)
      /\ \A j \in (i + 1)..Len(workingMessages) :
           (workingMessages[j].role = "tool"
              /\ workingMessages[j].name = "list_all_memory")
             => RequestOf(workingMessages, i).arguments.fact
                  \in Range(workingMessages[j].content)

-----------------------------------------------------------------------------
(* The session transcript *)

IsPrefix(s, t) == Len(s) <= Len(t) /\ SubSeq(t, 1, Len(s)) = s

\* C12: the session transcript starts with the system message, holds no
\* other system message, and every step leaves the transcript it had as a
\* prefix of the transcript it has.
C12_AppendOnly ==
  /\ [](/\ Len(messages) >= 1
        /\ messages[1] = SystemMessage
        /\ \A i \in 2..Len(messages) : messages[i].role # "system")
  /\ [][IsPrefix(messages, messages')]_vars

\* a session whose transcript has grown by a user message and by a whole
\* invocation with a tool round
C12_Witness ==
  /\ pc = "prompt"
  /\ Len(messages) >= 5
  /\ \E i \in 1..Len(messages) : messages[i].role = "tool"

-----------------------------------------------------------------------------
(* Failure of the model backend *)

\* processChatWithTools has been left by a rejection of ollama.chat: no
\* request is being executed (a handler that throws leaves idx at its
\* request)
ModelCallFailed == pc = "failed" /\ idx = 0

\* the messages that the rounds of the invocation in progress appended
AppendedByInvocation ==
  SubSeq(workingMessages, Len(messages) + 1, Len(workingMessages))

\* C13 as stated: after a model call failed in round r, the session
\* transcript holds everything that the completed rounds 1..r-1 of the
\* invocation appended.
C13_CompletedRoundsKept ==
  [][ModelCallFailed => messages' = workingMessages]_vars

\* C13, amended: after a model call failed in round r, the session
\* transcript is the transcript of the moment the invocation started, ending
\* with the user message; the assistant and tool messages of the rounds
\* 1..r-1 are in the discarded working copy only.
C13_InvocationDiscarded ==
  [][ModelCallFailed =>
       /\ messages' = messages
       /\ messages[Len(messages)].role = "user"
       /\ IsPrefix(messages, workingMessages)
       /\ \A k \in 1..Len(AppendedByInvocation) :
            AppendedByInvocation[k].role \in {"assistant", "tool"}]_vars

\* the model call of the second round has failed after a completed round
C13_Witness ==
  /\ ModelCallFailed
  /\ Len(AppendedByInvocation) >= 2
  /\ AppendedByInvocation[1].role = "assistant"
  /\ AppendedByInvocation[2].role = "tool"

-----------------------------------------------------------------------------
(* Interrupt and exit *)

\* C15: once a session that was interrupted is over and its history was
\* written, the history written is the session transcript, with every
\* assistant and tool message that the dispatch loop added to it.
C15_InterruptExportsAll ==
  (pc = "closed" /\ exported.status = "written") => exported.history = messages

-----------------------------------------------------------------------------
(* The handlers of one round *)

\* the working transcript ends with the assistant message of the round in
\* progress and the results of its requests before the idx-th, in order
ResultsSoFar ==
  LET a == Len(workingMessages) - (idx - 1)
  IN  /\ idx \in 1..Len(toolCalls)
      /\ a >= 1
      /\ workingMessages[a].role = "assistant"
      /\ workingMessages[a].tool_calls = toolCalls
      /\ \A i \in 1..(idx - 1) :
           /\ workingMessages[a + i].role = "tool"
           /\ workingMessages[a + i].tool_call_id = toolCalls[i].id
           /\ workingMessages[a + i].name = toolCalls[i].name

\* a step taken while the for loop runs is the handler of the idx-th
\* request: it raises, or it appends the result of that request
HandlerStep ==
  \/ pc' = "failed" /\ workingMessages' = workingMessages
  \/ /\ Len(workingMessages') = Len(workingMessages) + 1
     /\ IsPrefix(workingMessages, workingMessages')
     /\ workingMessages'[Len(workingMessages')].role = "tool"
     /\ workingMessages'[Len(workingMessages')].tool_call_id = toolCalls[idx].id
     /\ IF idx < Len(toolCalls)
          THEN /\ pc' = "tools"
               /\ idx' = idx + 1
               /\ toolCalls' = toolCalls
               /\ modelCalls' = modelCalls
          ELSE pc' = "call"

\* C16: while the handlers of a round run, the results appended so far are
\* those of the requests before the current one, in emission order; every
\* step is the handler of the current request, which starts after the
\* result of the previous one was appended; and no user input, interrupt
\* or model call happens before the last handler is through.
C16_HandlersInOrder ==
  /\ [](pc = "tools" => ResultsSoFar)
  /\ [][pc = "tools" =>
          /\ HandlerStep
          /\ messages' = messages
          /\ rlClosed' = rlClosed
          /\ exported' = exported]_vars

\* the second handler of a round is about to start
C16_Witness == pc = "tools" /\ idx = 2 /\ ResultsSoFar

-----------------------------------------------------------------------------
(* Loading the store *)

C17_WitnessMalformed ==
  last.op = "load" /\ file.state = "malformed" /\ memoryStore = <<>>

\* C18 as stated: the input exit leaves the session transcript written to
\* the history and the interface closed, with no user message appended and
\* no model call made.
C18_ExitWritesTranscript ==
  [][pc' = "exited" =>
       /\ exported'.status = "written"
       /\ exported'.history = messages
       /\ rlClosed'
       /\ messages' = messages
       /\ modelCalls' = modelCalls]_vars

\* C18, amended: on the input exit no user message is appended, no model
\* call is made and saveChatHistory runs before the interface is closed. It
\* writes the session transcript when the transcript holds more than the
\* system message and the write succeeds; it writes nothing for a
\* transcript of the system message alone or when the write fails, and the
\* interface is closed in all three cases. When creating the history
\* directory throws, the callback is left with the interface open.
C18_ExitExports ==
  [][(pc = "prompt" /\ pc' \in {"exited", "crashed"}) =>
       /\ messages' = messages
       /\ workingMessages' = workingMessages
       /\ modelCalls' = modelCalls
       /\ pc' = "exited" =>
            /\ rlClosed'
            /\ exported'.status \in {"written", "skipped", "failed"}
            /\ exported'.status = "skipped" <=> Len(messages) <= 1
            /\ exported'.status = "written" => exported'.history = messages
            /\ exported'.status # "written" => exported'.history = exported.history
       /\ pc' = "crashed" =>
            /\ ~rlClosed'
            /\ exported'.status = "threw"
            /\ exported'.history = exported.history]_vars

\* exit after a conversation: the history holds the whole transcript
C18_Witness ==
  /\ pc = "exited"
  /\ rlClosed
  /\ exported.status = "written"
  /\ exported.history = messages
  /\ Len(messages) >= 3

-----------------------------------------------------------------------------
(* Searching the store *)

\* the value of a record is a text with the query in it; facts and queries
\* are single pieces of text, so one contains the other when they are equal
ValueContains(value, query) == value.type = "string" /\ value.str = query

\* the place of a piece in a text, 0 when it is not there
PlaceOf(piece, text) ==
  IF piece \in Range(text)
    THEN CHOOSE i \in 1..Len(text) :
           text[i] = piece /\ \A k \in 1..(i - 1) : text[k] # piece
    ELSE 0

\* C19: the result of a search_memory request with query q shows the keys
\* of exactly the records whose value contains q, in the order of the
\* store.
C19_SearchReturnsMatches ==
  [][(/\ pc = "tools"
      /\ toolCalls[idx].name = "search_memory"
      /\ toolCalls[idx].arguments.query # NA) =>
       LET q == toolCalls[idx].arguments.query
           result == workingMessages'[Len(workingMessages')].content
           shown == {i \in 1..Len(memoryStore) :
                       memoryStore[i].key \in Range(result)}
           matching == {i \in 1..Len(memoryStore) :
                          ValueContains(memoryStore[i].value, q)}
       IN  /\ Len(workingMessages') = Len(workingMessages) + 1
           /\ shown = matching
           /\ \A i, j \in shown :
                i < j => PlaceOf(memoryStore[i].key, result)
                           < PlaceOf(memoryStore[j].key, result)]_vars

-----------------------------------------------------------------------------
(* Listing the store *)

\* the records that the saves of a log leave: one per key, at the place of
\* the first save under that key, holding the fact of the last one
RECURSIVE SavedRecords(_, _)
SavedRecords(log, i) ==
  IF i > Len(log) THEN <<>>
  ELSE LET again == \E k \in 1..(i - 1) : log[k].key = log[i].key
           final == CHOOSE j \in i..Len(log) :
                      /\ log[j].key = log[i].key
                      /\ \A k \in (j + 1)..Len(log) : log[k].key # log[i].key
       IN  (IF again THEN <<>>
            ELSE <<[key |-> log[i].key, value |-> log[final].fact]>>)
           \o SavedRecords(log, i + 1)

\* the text lists the records of the store, one line each, in their order
ListsInOrder(text, store) ==
  IF store = <<>>
    THEN text = << "No facts currently stored in memory." >>
    ELSE /\ Len(text) = 1 + 5 * Len(store)
         /\ \A i \in 1..Len(store) :
              /\ text[5 * i - 2] = store[i].key
              /\ text[5 * i] = TemplateString(store[i].value)

\* C20: the store holds the records it was loaded with followed by the
\* records saved since, in the order of the saves; listAll lists every
\* record of the store in that order; a successful write puts the records
\* into the file in that order and a load takes them from the file in that
\* order.
C20_ListedInInsertionOrder ==
  LET saved == SavedRecords(saveLog, 1)
      n == Len(memoryStore) - Len(saved)
  IN  /\ n >= 0
      /\ SubSeq(memoryStore, n + 1, Len(memoryStore)) = saved
      /\ \A i \in 1..n : \A j \in 1..Len(saveLog) :
           memoryStore[i].key # saveLog[j].key
      /\ last.op = "list" => ListsInOrder(last.ret, memoryStore)
      /\ (last.op = "save" /\ last.io = "ok") => file.entries = memoryStore
      /\ (last.op = "load" /\ file.state = "json") => memoryStore = file.entries

\* a listing of three records, two loaded from the file that an earlier
\* process wrote and one saved since
C20_Witness ==
  /\ last.op = "list"
  /\ Len(memoryStore) = 3
  /\ Len(saveLog) = 1
  /\ ListsInOrder(last.ret, memoryStore)

-----------------------------------------------------------------------------
(* Reading the store *)

\* C21: a call of get leaves the Map and the file as they were, and a call
\* of get that follows a call of get with the same key returns the same
\* text.
C21_GetIdempotentReadOnly ==
  [][last'.op = "retrieve" =>
       /\ memoryStore' = memoryStore
       /\ file' = file
       /\ (last.op = "retrieve" /\ last.key = last'.key) => last'.ret = last.ret]_vars

\* get has found the record of a save of this process
C21_Witness ==
  /\ last.op = "retrieve"
  /\ last.ret[1] = "Retrieved fact for key '"
  /\ \E i \in 1..Len(saveLog) : saveLog[i].key = last.key

-----------------------------------------------------------------------------
(* The store and its file *)

\* C22: a save whose write succeeds leaves in the file the JSON object of
\* exactly the records of the Map; get and listAll change neither the Map
\* nor the file; the load of a starting process reads the file and leaves
\* it as it was.
C22_FileMirrorsStore ==
  [][/\ (last'.op = "save" /\ last'.io = "ok") =>
          /\ file'.state = "json"
          /\ file'.entries = memoryStore'
     /\ last'.op \in {"retrieve", "list"} =>
          /\ memoryStore' = memoryStore
          /\ file' = file
     /\ last'.op = "load" => file' = file]_vars

\* a save of a second record has been written: the file holds both records
C22_Witness ==
  /\ last.op = "save"
  /\ last.io = "ok"
  /\ Len(memoryStore) >= 2
  /\ file = JsonFile(memoryStore)

-----------------------------------------------------------------------------
(* The schema and the registry *)

\* C23: the name of the request that the loop is about to execute resolves
\* to a handler when it is advertised in the schema, and is advertised when
\* it is a key of the registry that holds a handler.
C23_AdvertisedIffRegistered ==
  pc = "tools" =>
    LET functionName == toolCalls[idx].name
    IN  /\ functionName \in AdvertisedNames
             => AvailableFunctions(functionName) # NA
        /\ (functionName \in RegisteredNames /\ OwnFunction(functionName) # NA)
             => functionName \in AdvertisedNames

-----------------------------------------------------------------------------
(* The array given to processChatWithTools *)

\* an invocation of processChatWithTools has started and the session has
\* not yet taken its outcome
InInvocation == pc \in {"call", "tools", "done", "failed"}

\* C24: from the start of an invocation until the session takes its
\* outcome, the session transcript is the array that was passed in, ending
\* with the user message, and the working copy extends it; the session
\* transcript changes only at the prompt, by the user message, and at a
\* successful return, where it becomes the returned working copy; a failed
\* invocation, whether the model call or a handler failed, leaves it as it
\* was passed in.
C24_GivenArrayUntouched ==
  /\ [](InInvocation =>
          /\ IsPrefix(messages, workingMessages)
          /\ messages[Len(messages)].role = "user")
  /\ [][/\ pc \in {"call", "tools", "failed"} => messages' = messages
        /\ pc = "done" => messages' = workingMessages
        /\ pc = "prompt" =>
             \/ messages' = messages
             \/ /\ pc' = "call"
                /\ Len(messages') = Len(messages) + 1
                /\ IsPrefix(messages, messages')
                /\ messages'[Len(messages')].role = "user"]_vars

\* a handler has thrown in the second request of a round: the working copy
\* holds an assistant message and a tool message that the session
\* transcript does not
C24_Witness ==
  /\ pc = "failed"
  /\ idx = 2
  /\ Len(workingMessages) = Len(messages) + 2

-----------------------------------------------------------------------------
(* Termination of the dispatch loop *)

\* the working transcript ends with an assistant message without requests
EndsWithAnswer(m) ==
  /\ Len(m) >= 1
  /\ m[Len(m)].role = "assistant"
  /\ Len(m[Len(m)].tool_calls) = 0

-----------------------------------------------------------------------------
(* One invocation at a time *)

\* the user messages of a transcript
UserMessages(m) == {i \in 1..Len(m) : m[i].role = "user"}

\* C26: a user message is appended, and with it an invocation started, at
\* the prompt only, so never between the start of an invocation and the
\* moment the session has taken its return or its failure; a step taken
\* while a model call is pending is the settling of that call or the
\* interrupt listener, which leaves both transcripts as they are.
C26_OneInvocationInFlight ==
  [][/\ UserMessages(messages') # UserMessages(messages) =>
          /\ pc = "prompt"
          /\ pc' = "call"
          /\ workingMessages' = messages'
     /\ pc \in {"call", "tools", "done", "failed"} =>
          Cardinality(UserMessages(messages')) = Cardinality(UserMessages(messages))
     /\ pc = "call" =>
          \/ /\ pc' \in {"tools", "done", "failed"}
             /\ rlClosed' = rlClosed
             /\ exported' = exported
          \/ /\ pc' \in {"call", "crashed"}
             /\ ~rlClosed
             /\ exported'.status # "none"
             /\ messages' = messages
             /\ workingMessages' = workingMessages
             /\ modelCalls' = modelCalls]_vars

\* the model call of a second invocation is pending: its user message was
\* appended after the first invocation had returned
C26_Witness ==
  /\ pc = "call"
  /\ Cardinality(UserMessages(messages)) = 2
  /\ messages[Len(messages)].role = "user"
  /\ messages[Len(messages) - 1].role = "assistant"

====
